---- MODULE Spec2Model ----
(***************************************************************************)
(* A model of plansys2::ProblemExpert (ProblemExpert.cpp): the knowledge   *)
(* base of typed objects, grounded predicates and functions, contingent    *)
(* (UNKNOWN / ONE_OF) conditionals and the goal.  Every vector of the      *)
(* class is a sequence, every public method is one action, and every       *)
(* helper of the class is an operator over explicit values.  Beside it,    *)
(* ExecutorNodeContingent::execute with its tick loop, step by step, and   *)
(* the cancel request that another callback may raise meanwhile.           *)
(***************************************************************************)
EXTENDS Integers, Sequences, FiniteSets, TLC

VARIABLES
  instances_,     \* std::vector<plansys2::Instance> instances_
  predicates_,    \* std::vector<plansys2::Predicate> predicates_
  functions_,     \* std::vector<plansys2::Function> functions_
  conditionals_,  \* std::vector<plansys2_msgs::msg::Tree> conditionals_
  goal_,          \* plansys2::Goal goal_ (goal_.nodes; <<>> when cleared)
  op,             \* name of the last public method called
  arg,            \* its argument
  ret,            \* its return value
  pre,            \* the five collections as they were when it was called
  pc,                      \* where ExecutorNodeContingent is with the goal
  current_plan_,           \* std::optional<Plan> current_plan_: "none" or "plan"
  cancel_plan_requested_,  \* bool cancel_plan_requested_
  status,                  \* BT::NodeStatus status of execute
  halted,                  \* tree.haltTree() was called
  result,                  \* what goal_handle->succeed(result) delivered
  ticks,                   \* calls of tree.tickRoot() so far
  thrown,                  \* some tickRoot() raised an exception
  cancel_asked,            \* a cancel request arrived for the accepted goal
  ticks_after_cancel       \* calls of tickRoot() begun after that request

knowledge == <<instances_, predicates_, functions_, conditionals_, goal_, op, arg, ret, pre>>

executor ==
  <<pc, current_plan_, cancel_plan_requested_, status, halted, result, ticks, thrown,
    cancel_asked, ticks_after_cancel>>

vars == <<knowledge, executor>>

(***************************************************************************)
(* Bounds of the exploration.                                              *)
(***************************************************************************)
\* function values offered to addFunction / updateFunction are 0..MaxValue
MaxValue == 1

(***************************************************************************)
(* plansys2_msgs::msg::Node.  A Tree is the sequence of its nodes; C++     *)
(* index k is position k + 1 of the sequence.  A parameter is the name of  *)
(* the object bound to it.                                                 *)
(***************************************************************************)
Node(t, id, ch, nm, ps, v) ==
  [node_type |-> t, node_id |-> id, children |-> ch, name |-> nm,
   parameters |-> ps, value |-> v, negate |-> FALSE]

Predicate(nm, ps) == Node("PREDICATE", 0, <<>>, nm, ps, 0)

Function(nm, ps, v) == Node("FUNCTION", 0, <<>>, nm, ps, v)

Instance(nm, ty) == [name |-> nm, type |-> ty]

Range(s) == {s[i] : i \in 1..Len(s)}

\* vector::erase(begin() + i), for the C++ index i
Erase(s, i) == SubSeq(s, 1, i) \o SubSeq(s, i + 2, Len(s))

\* tree.nodes[i], for the C++ index i
At(tree, i) == tree[i + 1]

Min(S) == CHOOSE x \in S : \A y \in S : x <= y

(***************************************************************************)
(* The domain schema the knowledge base validates against (DomainExpert):  *)
(* types, and per predicate / function the declared parameter types with   *)
(* the accepted subtypes of each.                                          *)
(***************************************************************************)
\* DomainExpert::getTypes
getTypes == {"robot", "room", "kitchen"}

Param(ty, subs) == [type |-> ty, sub_types |-> subs]

\* DomainExpert::getPredicate: <<>> is an empty optional
domainPredicate(nm) ==
  CASE nm = "at" -> <<[parameters |-> <<Param("robot", {}), Param("room", {"kitchen"})>>]>>
    [] nm = "charged" -> <<[parameters |-> <<Param("robot", {})>>]>>
    [] nm = "docked" -> <<[parameters |-> <<Param("robot", {})>>]>>
    [] OTHER -> <<>>

\* DomainExpert::getFunction: <<>> is an empty optional
domainFunction(nm) ==
  CASE nm = "battery" -> <<[parameters |-> <<Param("robot", {})>>]>>
    [] nm = "size" -> <<[parameters |-> <<Param("room", {"kitchen"})>>]>>
    [] OTHER -> <<>>

(***************************************************************************)
(* Node and tree equality of the pddl parser utilities.                    *)
(***************************************************************************)
\* parser::pddl::checkNodeEquality: kind, name, bound parameters in order
\* and number of children; a function's value is not part of its identity
checkNodeEquality(first, second) ==
  /\ first.node_type = second.node_type
  /\ first.name = second.name
  /\ Len(first.children) = Len(second.children)
  /\ first.parameters = second.parameters

\* parser::pddl::checkTreeEquality: node sequences equal node by node
checkTreeEquality(first, second) ==
  /\ Len(first) = Len(second)
  /\ \A i \in 1..Len(first) : checkNodeEquality(first[i], second[i])

(***************************************************************************)
(* Objects.                                                                *)
(***************************************************************************)
isValidType(type) == type \in getTypes

\* first instance of that name as a std::optional: <<>> or <<instance>>
getInstance(instances, instance_name) ==
  LET found == {i \in 1..Len(instances) : instances[i].name = instance_name}
  IN IF found = {} THEN <<>> ELSE <<instances[Min(found)]>>

existInstance(instances, name) == \E i \in 1..Len(instances) : instances[i].name = name

\* addInstance pushing the instance whether or not the name is stored
addInstance_AlwaysPush(instances, instance) ==
  IF ~isValidType(instance.type)
  THEN [ret |-> FALSE, instances |-> instances]
  ELSE LET existing_instance == getInstance(instances, instance.name)
       IN IF existing_instance # <<>> /\ existing_instance[1].type # instance.type
          THEN [ret |-> FALSE, instances |-> instances]
          ELSE [ret |-> TRUE, instances |-> Append(instances, instance)]

\* addInstance without the comparison of the stored type
addInstance_NoConflictCheck(instances, instance) ==
  IF ~isValidType(instance.type)
  THEN [ret |-> FALSE, instances |-> instances]
  ELSE IF getInstance(instances, instance.name) = <<>>
       THEN [ret |-> TRUE, instances |-> Append(instances, instance)]
       ELSE [ret |-> TRUE, instances |-> instances]

addInstance(instances, instance) ==
  IF ~isValidType(instance.type)
  THEN [ret |-> FALSE, instances |-> instances]
  ELSE LET existing_instance == getInstance(instances, instance.name)
           exist_instance == existing_instance # <<>>
       IN IF exist_instance /\ existing_instance[1].type # instance.type
          THEN [ret |-> FALSE, instances |-> instances]
          ELSE IF ~exist_instance
               THEN [ret |-> TRUE, instances |-> Append(instances, instance)]
               ELSE [ret |-> TRUE, instances |-> instances]

(***************************************************************************)
(* Type validity of a grounded predicate / function.                       *)
(***************************************************************************)
\* the while loop over the parameters: stops at the first mismatch
sameTypes(instances, model_params, parameters) ==
  \A i \in 1..Len(parameters) :
    LET arg_type == getInstance(instances, parameters[i])
    IN /\ arg_type # <<>>
       /\ \/ arg_type[1].type = model_params[i].type
          \/ arg_type[1].type \in model_params[i].sub_types

\* isValidPredicate accepting any object of a declared type in any position
isValidPredicate_NoTypeCheck(instances, predicate) ==
  LET model_predicate == domainPredicate(predicate.name)
  IN /\ model_predicate # <<>>
     /\ Len(model_predicate[1].parameters) = Len(predicate.parameters)
     /\ \A i \in 1..Len(predicate.parameters) :
          getInstance(instances, predicate.parameters[i]) # <<>>

isValidPredicate(instances, predicate) ==
  LET model_predicate == domainPredicate(predicate.name)
  IN /\ model_predicate # <<>>
     /\ Len(model_predicate[1].parameters) = Len(predicate.parameters)
     /\ sameTypes(instances, model_predicate[1].parameters, predicate.parameters)

isValidFunction(instances, function) ==
  LET model_function == domainFunction(function.name)
  IN /\ model_function # <<>>
     /\ Len(model_function[1].parameters) = Len(function.parameters)
     /\ sameTypes(instances, model_function[1].parameters, function.parameters)

(***************************************************************************)
(* Predicates.                                                             *)
(***************************************************************************)
existPredicate(predicates, predicate) ==
  \E i \in 1..Len(predicates) : checkNodeEquality(predicates[i], predicate)

\* addPredicate without the existPredicate test
addPredicate_NoExistCheck(instances, predicates, predicate) ==
  IF isValidPredicate(instances, predicate)
  THEN [ret |-> TRUE, predicates |-> Append(predicates, predicate)]
  ELSE [ret |-> FALSE, predicates |-> predicates]

addPredicate(instances, predicates, predicate) ==
  IF ~existPredicate(predicates, predicate)
  THEN IF isValidPredicate(instances, predicate)
       THEN [ret |-> TRUE, predicates |-> Append(predicates, predicate)]
       ELSE [ret |-> FALSE, predicates |-> predicates]
  ELSE [ret |-> TRUE, predicates |-> predicates]

\* erase the first stored node equal to `node`, if any
eraseFirstEqual(nodes, node) ==
  LET found == {i \in 1..Len(nodes) : checkNodeEquality(nodes[i], node)}
  IN IF found = {} THEN nodes ELSE Erase(nodes, Min(found) - 1)

removePredicate(instances, predicates, predicate) ==
  IF ~isValidPredicate(instances, predicate)
  THEN [ret |-> FALSE, predicates |-> predicates]
  ELSE [ret |-> TRUE, predicates |-> eraseFirstEqual(predicates, predicate)]

(***************************************************************************)
(* Functions.                                                              *)
(***************************************************************************)
existFunction(functions, function) ==
  \E i \in 1..Len(functions) : checkNodeEquality(functions[i], function)

removeFunction(instances, functions, function) ==
  IF ~isValidFunction(instances, function)
  THEN [ret |-> FALSE, functions |-> functions]
  ELSE [ret |-> TRUE, functions |-> eraseFirstEqual(functions, function)]

\* updateFunction keeping the old entry beside the new one
updateFunction_NoRemove(instances, functions, function) ==
  IF existFunction(functions, function) /\ isValidFunction(instances, function)
  THEN [ret |-> TRUE, functions |-> Append(functions, function)]
  ELSE [ret |-> FALSE, functions |-> functions]

updateFunction(instances, functions, function) ==
  IF existFunction(functions, function)
  THEN IF isValidFunction(instances, function)
       THEN [ret |-> TRUE,
             functions |->
               Append(removeFunction(instances, functions, function).functions, function)]
       ELSE [ret |-> FALSE, functions |-> functions]
  ELSE [ret |-> FALSE, functions |-> functions]

addFunction(instances, functions, function) ==
  IF ~existFunction(functions, function)
  THEN IF isValidFunction(instances, function)
       THEN [ret |-> TRUE, functions |-> Append(functions, function)]
       ELSE [ret |-> FALSE, functions |-> functions]
  ELSE updateFunction(instances, functions, function)

(***************************************************************************)
(* Tree type checking.                                                     *)
(***************************************************************************)
\* checkPredicateTreeTypes(tree, domain_expert, node_id).  node_id is a
\* uint8_t, so a child index is taken modulo 256 on the recursive call.
\* A NOT node reads children[0] unguarded; `ub` is what the check ends up
\* answering when that vector is empty and the read is out of bounds.
RECURSIVE checkPredicateTreeTypes(_, _, _, _)
checkPredicateTreeTypes(instances, tree, node_id, ub) ==
  IF node_id >= Len(tree)
  THEN FALSE
  ELSE LET node == At(tree, node_id)
           allChildren ==
             \A k \in 1..Len(node.children) :
               checkPredicateTreeTypes(instances, tree, node.children[k] % 256, ub)
       IN CASE node.node_type = "AND" -> allChildren
            [] node.node_type = "OR" -> allChildren
            [] node.node_type = "NOT" ->
                 IF node.children = <<>>
                 THEN ub
                 ELSE checkPredicateTreeTypes(instances, tree, node.children[1] % 256, ub)
            [] node.node_type = "UNKNOWN" ->
                 /\ Len(node.children) = 1
                 /\ checkPredicateTreeTypes(instances, tree, node.children[1] % 256, ub)
            [] node.node_type = "ONE_OF" -> allChildren
            [] node.node_type = "PREDICATE" -> isValidPredicate(instances, node)
            [] node.node_type = "FUNCTION" -> isValidFunction(instances, node)
            [] node.node_type = "EXPRESSION" -> allChildren
            [] node.node_type = "FUNCTION_MODIFIER" -> allChildren
            [] node.node_type = "NUMBER" -> TRUE
            [] OTHER -> FALSE

\* the node indices on which the body of checkPredicateTreeTypes is entered
\* in one call: `ret = ret && checkPredicateTreeTypes(...)` makes the call
\* for a child only while ret is still true
RECURSIVE checkedNodes(_, _, _, _)
RECURSIVE checkedChildren(_, _, _, _, _)
checkedNodes(instances, tree, node_id, ub) ==
  IF node_id >= Len(tree)
  THEN {node_id}
  ELSE LET node == At(tree, node_id)
       IN {node_id} \cup
          CASE node.node_type \in {"AND", "OR", "ONE_OF", "EXPRESSION", "FUNCTION_MODIFIER"} ->
                 checkedChildren(instances, tree, node.children, 1, ub)
            [] node.node_type = "NOT" ->
                 IF node.children = <<>>
                 THEN {}
                 ELSE checkedNodes(instances, tree, node.children[1] % 256, ub)
            [] node.node_type = "UNKNOWN" ->
                 IF Len(node.children) = 1
                 THEN checkedNodes(instances, tree, node.children[1] % 256, ub)
                 ELSE {}
            [] OTHER -> {}

\* the loop over the children from the k-th on, entered with ret = true
checkedChildren(instances, tree, children, k, ub) ==
  IF k > Len(children)
  THEN {}
  ELSE checkedNodes(instances, tree, children[k] % 256, ub) \cup
       IF checkPredicateTreeTypes(instances, tree, children[k] % 256, ub)
       THEN checkedChildren(instances, tree, children, k + 1, ub)
       ELSE {}

isValidGoal(instances, goal, ub) == checkPredicateTreeTypes(instances, goal, 0, ub)

isValidCondition(instances, cond, ub) == checkPredicateTreeTypes(instances, cond, 0, ub)

(***************************************************************************)
(* Conditionals.                                                           *)
(***************************************************************************)
\* existConditional comparing the trees as sets of nodes, whatever their order
existConditional_AnyOrder(conditionals, condition) ==
  \E i \in 1..Len(conditionals) :
    {[n EXCEPT !.node_id = 0] : n \in Range(conditionals[i])}
      = {[n EXCEPT !.node_id = 0] : n \in Range(condition)}

\* std::find with operator== of the message: every field of every node
existConditional(conditionals, condition) ==
  \E i \in 1..Len(conditionals) : conditionals[i] = condition

\* addConditional refusing every root other than UNKNOWN and ONE_OF
addConditional_RootChecked(instances, predicates, conditionals, condition, ub) ==
  IF ~existConditional(conditionals, condition)
  THEN IF /\ isValidCondition(instances, condition, ub)
          /\ At(condition, 0).node_type \in {"UNKNOWN", "ONE_OF"}
       THEN IF At(condition, 0).node_type = "ONE_OF" /\ Len(At(condition, 0).children) = 1
            THEN [ret |-> TRUE,
                  predicates |-> addPredicate(instances, predicates, At(condition, 1)).predicates,
                  conditionals |-> conditionals]
            ELSE [ret |-> TRUE, predicates |-> predicates,
                  conditionals |-> Append(conditionals, condition)]
       ELSE [ret |-> FALSE, predicates |-> predicates, conditionals |-> conditionals]
  ELSE [ret |-> TRUE, predicates |-> predicates, conditionals |-> conditionals]

\* addConditional storing a one-disjunct ONE_OF like any other conditional
addConditional_NoCollapse(instances, predicates, conditionals, condition, ub) ==
  IF ~existConditional(conditionals, condition)
  THEN IF isValidCondition(instances, condition, ub)
       THEN [ret |-> TRUE, predicates |-> predicates,
             conditionals |-> Append(conditionals, condition)]
       ELSE [ret |-> FALSE, predicates |-> predicates, conditionals |-> conditionals]
  ELSE [ret |-> TRUE, predicates |-> predicates, conditionals |-> conditionals]

addConditional(instances, predicates, conditionals, condition, ub) ==
  IF ~existConditional(conditionals, condition)
  THEN IF isValidCondition(instances, condition, ub)
       THEN IF /\ At(condition, 0).node_type = "ONE_OF"
               /\ Len(At(condition, 0).children) = 1
            THEN [ret |-> TRUE,
                  predicates |-> addPredicate(instances, predicates, At(condition, 1)).predicates,
                  conditionals |-> conditionals]
            ELSE [ret |-> TRUE, predicates |-> predicates,
                  conditionals |-> Append(conditionals, condition)]
       ELSE [ret |-> FALSE, predicates |-> predicates, conditionals |-> conditionals]
  ELSE [ret |-> TRUE, predicates |-> predicates, conditionals |-> conditionals]

\* std::find_if with checkTreeEquality: C++ index of the first match, or -1
findConditional(conditionals, condition) ==
  LET found == {i \in 1..Len(conditionals) : checkTreeEquality(conditionals[i], condition)}
  IN IF found = {} THEN -1 ELSE Min(found) - 1

\* the copy of ONE_OF group c without the disjuncts equal to `inner`,
\* the survivors renumbered 1, 2, ... in their order
filterOneOf(c, inner) ==
  LET children == At(c, 0).children
      disjuncts == [k \in 1..Len(children) |-> At(c, children[k])]
      kept == SelectSeq(disjuncts, LAMBDA n : ~checkNodeEquality(n, inner))
  IN <<[At(c, 0) EXCEPT !.children = [k \in 1..Len(kept) |-> k]]>> \o kept

\* the ONE_OF groups among the conditionals, in order
oneOfGroups(conditionals) ==
  SelectSeq(conditionals, LAMBDA c : At(c, 0).node_type = "ONE_OF")

\* removeConditional as it runs for a ONE_OF group of conditionals_to_remove:
\* the validity check and the erase of the first equal tree
RECURSIVE removeEach(_, _, _, _)
removeEach(instances, conditionals, to_remove, ub) ==
  IF to_remove = <<>>
  THEN conditionals
  ELSE LET c == Head(to_remove)
           it == findConditional(conditionals, c)
           next == IF isValidCondition(instances, c, ub) /\ it # -1
                   THEN Erase(conditionals, it)
                   ELSE conditionals
       IN removeEach(instances, next, Tail(to_remove), ub)

\* addConditional for each tree of conditionals_to_add
RECURSIVE addEach(_, _, _, _, _)
addEach(instances, predicates, conditionals, to_add, ub) ==
  IF to_add = <<>>
  THEN [predicates |-> predicates, conditionals |-> conditionals]
  ELSE LET r == addConditional(instances, predicates, conditionals, Head(to_add), ub)
       IN addEach(instances, r.predicates, r.conditionals, Tail(to_add), ub)

\* removeConditional whose cascade leaves a one-disjunct group unfiltered
removeConditional_NoCascade(instances, predicates, conditionals, condition, ub) ==
  IF ~isValidCondition(instances, condition, ub)
  THEN [ret |-> FALSE, predicates |-> predicates, conditionals |-> conditionals]
  ELSE LET it == findConditional(conditionals, condition)
       IN IF it = -1
          THEN [ret |-> TRUE, predicates |-> predicates, conditionals |-> conditionals]
          ELSE [ret |-> TRUE, predicates |-> predicates,
                conditionals |-> Erase(conditionals, it)]

removeConditional(instances, predicates, conditionals, condition, ub) ==
  IF ~isValidCondition(instances, condition, ub)
  THEN [ret |-> FALSE, predicates |-> predicates, conditionals |-> conditionals]
  ELSE LET it == findConditional(conditionals, condition)
       IN IF it = -1
          THEN [ret |-> TRUE, predicates |-> predicates, conditionals |-> conditionals]
          ELSE LET erased == Erase(conditionals, it)
                   groups == IF At(condition, 0).node_type = "UNKNOWN"
                             THEN oneOfGroups(erased)
                             ELSE <<>>
                   conditionals_to_remove == groups
                   filtered == [k \in 1..Len(groups) |->
                                  filterOneOf(groups[k], At(condition, 1))]
                   conditionals_to_add ==
                     SelectSeq(filtered, LAMBDA t : Len(At(t, 0).children) > 0)
                   removed == removeEach(instances, erased, conditionals_to_remove, ub)
                   added == addEach(instances, predicates, removed, conditionals_to_add, ub)
               IN [ret |-> TRUE, predicates |-> added.predicates,
                   conditionals |-> added.conditionals]

(***************************************************************************)
(* Tree utilities of the pddl parser used by the goal cascade.             *)
(***************************************************************************)
RECURSIVE sumLen(_, _)
sumLen(seqs, n) == IF n = 0 THEN 0 ELSE Len(seqs[n]) + sumLen(seqs, n - 1)

RECURSIVE concat(_)
concat(seqs) == IF seqs = <<>> THEN <<>> ELSE Head(seqs) \o concat(Tail(seqs))

\* the nodes of `sub` moved `by` places up in an arena
shift(sub, by) ==
  [i \in 1..Len(sub) |->
     [sub[i] EXCEPT !.node_id = @ + by,
                    !.children = [j \in 1..Len(@) |-> @[j] + by]]]

\* a root node over the trees `subs`, each appended after the previous one
join(root, subs) ==
  LET start == [k \in 1..Len(subs) |-> 1 + sumLen(subs, k - 1)]
  IN <<[root EXCEPT !.node_id = 0, !.children = start]>>
       \o concat([k \in 1..Len(subs) |-> shift(subs[k], start[k])])

\* the subtree rooted at node_id as a tree of its own, root at index 0
RECURSIVE subtreeAt(_, _)
subtreeAt(tree, node_id) ==
  LET node == At(tree, node_id)
  IN join(node, [k \in 1..Len(node.children) |-> subtreeAt(tree, node.children[k])])

\* parser::pddl::getSubtrees: the top-level conjuncts / disjuncts of a tree
\* rooted at AND or OR; no subtree for an empty tree or another root
getSubtrees(tree) ==
  IF tree = <<>>
  THEN <<>>
  ELSE IF At(tree, 0).node_type \in {"AND", "OR"}
       THEN [k \in 1..Len(At(tree, 0).children) |->
               subtreeAt(tree, At(tree, 0).children[k])]
       ELSE <<>>

\* parser::pddl::fromSubtrees as a std::optional: the subtrees joined under
\* a root of node_type; nothing for no subtree or a root that joins nothing
fromSubtrees(subtrees, node_type) ==
  IF node_type \notin {"AND", "OR"} \/ subtrees = <<>>
  THEN <<>>
  ELSE <<join(Node(node_type, 0, <<>>, "", <<>>, 0), subtrees)>>

\* the nodes of kind node_type reachable from node_id, following children
RECURSIVE leavesOf(_, _, _)
leavesOf(tree, node_id, node_type) ==
  LET node == At(tree, node_id)
  IN (IF node.node_type = node_type THEN {node} ELSE {})
       \cup UNION {leavesOf(tree, node.children[k], node_type) : k \in 1..Len(node.children)}

\* parser::pddl::getPredicates
getPredicates(tree) == leavesOf(tree, 0, "PREDICATE")

\* parser::pddl::getFunctions
getFunctions(tree) == leavesOf(tree, 0, "FUNCTION")

(***************************************************************************)
(* The cascade of removeInstance.                                          *)
(***************************************************************************)
\* the find_if over the parameters of a node
references(node, name) == \E i \in 1..Len(node.parameters) : node.parameters[i] = name

\* the reverse loop of removeInvalidPredicates / removeInvalidFunctions from
\* C++ index i down to 0: erase(std::next(rit).base()) erases *rit and the
\* loop goes on with the element before it
RECURSIVE eraseReferencing(_, _, _)
eraseReferencing(nodes, i, name) ==
  IF i < 0
  THEN nodes
  ELSE IF references(At(nodes, i), name)
       THEN eraseReferencing(Erase(nodes, i), i - 1, name)
       ELSE eraseReferencing(nodes, i - 1, name)

\* removeInvalidPredicates erasing only the last predicate that names the object
removeInvalidPredicates_LastOnly(predicates, name) ==
  LET found == {i \in 1..Len(predicates) : references(predicates[i], name)}
  IN IF found = {} THEN predicates
     ELSE Erase(predicates, (CHOOSE x \in found : \A y \in found : y <= x) - 1)

removeInvalidPredicates(predicates, name) ==
  eraseReferencing(predicates, Len(predicates) - 1, name)

removeInvalidFunctions(functions, name) ==
  eraseReferencing(functions, Len(functions) - 1, name)

\* whether a subgoal survives the two checks of the loop body
subgoalValid(subgoal, name) ==
  /\ \A predicate \in getPredicates(subgoal) : ~references(predicate, name)
  /\ \A function \in getFunctions(subgoal) : ~references(function, name)

\* the reverse loop of removeInvalidGoals over the subgoals
RECURSIVE eraseInvalidSubgoals(_, _, _)
eraseInvalidSubgoals(subgoals, i, name) ==
  IF i < 0
  THEN subgoals
  ELSE IF ~subgoalValid(At(subgoals, i), name)
       THEN eraseInvalidSubgoals(Erase(subgoals, i), i - 1, name)
       ELSE eraseInvalidSubgoals(subgoals, i - 1, name)

removeInvalidGoals(goal, name) ==
  LET subgoals == getSubtrees(goal)
  IN IF subgoals = <<>>
     THEN goal
     ELSE LET remaining == eraseInvalidSubgoals(subgoals, Len(subgoals) - 1, name)
              tree == fromSubtrees(remaining, At(goal, 0).node_type)
          IN IF tree # <<>> THEN tree[1] ELSE <<>>

\* removeInstance erasing the object and nothing that names it
removeInstance_NoCascade(instances, predicates, functions, goal, name) ==
  LET found == {i \in 1..Len(instances) : instances[i].name = name}
  IN [ret |-> found # {},
      instances |-> IF found = {} THEN instances ELSE Erase(instances, Min(found) - 1),
      predicates |-> predicates, functions |-> functions, goal |-> goal]

\* removeInstance(instance): only instance.name is read
removeInstance(instances, predicates, functions, goal, name) ==
  LET found == {i \in 1..Len(instances) : instances[i].name = name}
  IN [ret |-> found # {},
      instances |-> IF found = {} THEN instances ELSE Erase(instances, Min(found) - 1),
      predicates |-> removeInvalidPredicates(predicates, name),
      functions |-> removeInvalidFunctions(functions, name),
      goal |-> removeInvalidGoals(goal, name)]

\* setGoal
setGoal(instances, goal_now, goal, ub) ==
  IF isValidGoal(instances, goal, ub)
  THEN [ret |-> TRUE, goal |-> goal]
  ELSE [ret |-> FALSE, goal |-> goal_now]

(***************************************************************************)
(* addProblem: the parsed problem is fed to the store item by item.        *)
(***************************************************************************)
RECURSIVE addInstances(_, _)
addInstances(instances, objects) ==
  IF objects = <<>>
  THEN instances
  ELSE addInstances(addInstance(instances, Head(objects)).instances, Tail(objects))

\* the loop over problem.init: predicates and functions, failures only logged
RECURSIVE addInit(_, _, _, _)
addInit(instances, predicates, functions, init) ==
  IF init = <<>>
  THEN [predicates |-> predicates, functions |-> functions]
  ELSE LET ground == Head(init)
       IN CASE ground.node_type = "PREDICATE" ->
                 addInit(instances, addPredicate(instances, predicates, ground).predicates,
                         functions, Tail(init))
            [] ground.node_type = "FUNCTION" ->
                 addInit(instances, predicates,
                         addFunction(instances, functions, ground).functions, Tail(init))
            [] OTHER -> addInit(instances, predicates, functions, Tail(init))

\* the loop over problem.init_cond: trees rooted at UNKNOWN, ONE_OF or OR
RECURSIVE addInitCond(_, _, _, _, _)
addInitCond(instances, predicates, conditionals, init_cond, ub) ==
  IF init_cond = <<>>
  THEN [predicates |-> predicates, conditionals |-> conditionals]
  ELSE LET tree == Head(init_cond)
           r == IF At(tree, 0).node_type \in {"UNKNOWN", "ONE_OF", "OR"}
                THEN addConditional(instances, predicates, conditionals, tree, ub)
                ELSE [predicates |-> predicates, conditionals |-> conditionals]
       IN addInitCond(instances, r.predicates, r.conditionals, Tail(init_cond), ub)

\* addProblem emptying the store before the text is read
addProblem_ClearsFirst(store, problem, ub) ==
  LET empty == [instances |-> <<>>, predicates |-> <<>>, functions |-> <<>>,
                conditionals |-> <<>>, goal |-> <<>>]
  IN IF problem.status # "parsed"
     THEN [ret |-> FALSE, store |-> empty]
     ELSE LET instances == addInstances(empty.instances, problem.objects)
              facts == addInit(instances, empty.predicates, empty.functions, problem.init)
              conds == addInitCond(instances, facts.predicates, empty.conditionals,
                                   problem.init_cond, ub)
              goal == setGoal(instances, empty.goal, problem.goal, ub).goal
          IN [ret |-> TRUE,
              store |-> [instances |-> instances, predicates |-> conds.predicates,
                         functions |-> facts.functions,
                         conditionals |-> conds.conditionals, goal |-> goal]]

\* addProblem on the outcome of reading the text: `problem.status` says
\* whether the text was empty, named no domain or an unknown one, failed to
\* parse, or parsed into objects, init, init_cond and goal
addProblem(store, problem, ub) ==
  IF problem.status # "parsed"
  THEN [ret |-> FALSE, store |-> store]
  ELSE LET instances == addInstances(store.instances, problem.objects)
           facts == addInit(instances, store.predicates, store.functions, problem.init)
           conds == addInitCond(instances, facts.predicates, store.conditionals,
                                problem.init_cond, ub)
           goal == setGoal(instances, store.goal, problem.goal, ub).goal
       IN [ret |-> TRUE,
           store |-> [instances |-> instances, predicates |-> conds.predicates,
                      functions |-> facts.functions, conditionals |-> conds.conditionals,
                      goal |-> goal]]

(***************************************************************************)
(* The calls offered to the knowledge base.                                *)
(***************************************************************************)
\* trees as the parser lays them out: the operator at index 0, node k at index k
Leaf(n, id) == [n EXCEPT !.node_id = id]

TreeOf(t, leaves) ==
  <<Node(t, 0, [k \in 1..Len(leaves) |-> k], "", <<>>, 0)>>
    \o [k \in 1..Len(leaves) |-> Leaf(leaves[k], k)]

PredA == Predicate("at", <<"r1", "l1">>)
PredB == Predicate("charged", <<"r1">>)

InstanceInputs ==
  {Instance("r1", "robot"), Instance("l1", "room"), Instance("l1", "kitchen"),
   Instance("l1", "ghost")}

NameInputs == {"r1", "l1", "l2"}

PredicateInputs ==
  {PredA, PredB,
   Predicate("at", <<"r1">>),         \* wrong arity
   Predicate("foo", <<"r1">>),        \* not declared
   Predicate("charged", <<"l1">>)}    \* type neither declared nor a subtype

FunctionInputs ==
  {Function("battery", <<"r1">>, v) : v \in 0..MaxValue}
    \cup {Function("size", <<"l1">>, 0),
          Function("battery", <<"l1">>, 0),
          Function("fuel", <<"r1">>, 0)}

ConditionalInputs ==
  {TreeOf("UNKNOWN", <<PredA>>), TreeOf("UNKNOWN", <<PredB>>),
   TreeOf("ONE_OF", <<PredA, PredB>>), TreeOf("ONE_OF", <<PredA>>),
   TreeOf("ONE_OF", <<>>),
   TreeOf("UNKNOWN", <<Predicate("charged", <<"l1">>)>>)}

GoalInputs ==
  {<<PredA>>, TreeOf("AND", <<PredA, PredB>>), TreeOf("OR", <<PredA, PredB>>),
   TreeOf("AND", <<PredB, Function("size", <<"l1">>, 0)>>),
   <<Predicate("foo", <<"r1">>)>>}

Problem(st, objects, init, init_cond, goal) ==
  [status |-> st, objects |-> objects, init |-> init, init_cond |-> init_cond, goal |-> goal]

ProblemInputs ==
  {Problem(st, <<>>, <<>>, <<>>, <<>>) :
     st \in {"empty", "no_domain", "unknown_domain", "parse_error"}}
    \cup {Problem("parsed", <<Instance("r1", "robot"), Instance("l1", "room")>>,
                  <<PredB, Function("battery", <<"r1">>, 0)>>,
                  <<TreeOf("UNKNOWN", <<PredA>>), TreeOf("UNKNOWN", <<PredB>>),
                    TreeOf("ONE_OF", <<PredA, PredB>>)>>,
                  TreeOf("AND", <<PredA, PredB>>))}

\* the outcomes of the unguarded children[0] of a NOT node of the tree
UB(tree) ==
  IF \E i \in 1..Len(tree) : tree[i].node_type = "NOT" /\ tree[i].children = <<>>
  THEN BOOLEAN
  ELSE {FALSE}

(***************************************************************************)
(* State machine.                                                          *)
(***************************************************************************)
Store ==
  [instances |-> instances_, predicates |-> predicates_, functions |-> functions_,
   conditionals |-> conditionals_, goal |-> goal_]

Arg(nm, ty, tree) == [name |-> nm, type |-> ty, tree |-> tree]

Call(o, a, r) == op' = o /\ arg' = a /\ ret' = r /\ pre' = Store /\ UNCHANGED executor

Init ==
  /\ instances_ = <<>>
  /\ predicates_ = <<>>
  /\ functions_ = <<>>
  /\ conditionals_ = <<>>
  /\ goal_ = <<>>
  /\ op = "init"
  /\ arg = Arg("", "", <<>>)
  /\ ret = TRUE
  /\ pre = [instances |-> <<>>, predicates |-> <<>>, functions |-> <<>>,
            conditionals |-> <<>>, goal |-> <<>>]
  /\ pc = "idle"
  /\ current_plan_ = "none"
  /\ cancel_plan_requested_ = FALSE
  /\ status = "RUNNING"
  /\ halted = FALSE
  /\ result = [delivered |-> FALSE, success |-> FALSE]
  /\ ticks = 0
  /\ thrown = FALSE
  /\ cancel_asked = FALSE
  /\ ticks_after_cancel = 0

AddInstance(instance) ==
  LET r == addInstance(instances_, instance)
  IN /\ instances_' = r.instances
     /\ UNCHANGED <<predicates_, functions_, conditionals_, goal_>>
     /\ Call("addInstance", Arg(instance.name, instance.type, <<>>), r.ret)

RemoveInstance(name) ==
  LET r == removeInstance(instances_, predicates_, functions_, goal_, name)
  IN /\ instances_' = r.instances
     /\ predicates_' = r.predicates
     /\ functions_' = r.functions
     /\ goal_' = r.goal
     /\ UNCHANGED conditionals_
     /\ Call("removeInstance", Arg(name, "", <<>>), r.ret)

AddPredicate(predicate) ==
  LET r == addPredicate(instances_, predicates_, predicate)
  IN /\ predicates_' = r.predicates
     /\ UNCHANGED <<instances_, functions_, conditionals_, goal_>>
     /\ Call("addPredicate", Arg("", "", <<predicate>>), r.ret)

RemovePredicate(predicate) ==
  LET r == removePredicate(instances_, predicates_, predicate)
  IN /\ predicates_' = r.predicates
     /\ UNCHANGED <<instances_, functions_, conditionals_, goal_>>
     /\ Call("removePredicate", Arg("", "", <<predicate>>), r.ret)

AddFunction(function) ==
  LET r == addFunction(instances_, functions_, function)
  IN /\ functions_' = r.functions
     /\ UNCHANGED <<instances_, predicates_, conditionals_, goal_>>
     /\ Call("addFunction", Arg("", "", <<function>>), r.ret)

UpdateFunction(function) ==
  LET r == updateFunction(instances_, functions_, function)
  IN /\ functions_' = r.functions
     /\ UNCHANGED <<instances_, predicates_, conditionals_, goal_>>
     /\ Call("updateFunction", Arg("", "", <<function>>), r.ret)

RemoveFunction(function) ==
  LET r == removeFunction(instances_, functions_, function)
  IN /\ functions_' = r.functions
     /\ UNCHANGED <<instances_, predicates_, conditionals_, goal_>>
     /\ Call("removeFunction", Arg("", "", <<function>>), r.ret)

AddConditional(condition) ==
  \E ub \in UB(condition) :
    LET r == addConditional(instances_, predicates_, conditionals_, condition, ub)
    IN /\ predicates_' = r.predicates
       /\ conditionals_' = r.conditionals
       /\ UNCHANGED <<instances_, functions_, goal_>>
       /\ Call("addConditional", Arg("", "", condition), r.ret)

RemoveConditional(condition) ==
  \E ub \in UB(condition) :
    LET r == removeConditional(instances_, predicates_, conditionals_, condition, ub)
    IN /\ predicates_' = r.predicates
       /\ conditionals_' = r.conditionals
       /\ UNCHANGED <<instances_, functions_, goal_>>
       /\ Call("removeConditional", Arg("", "", condition), r.ret)

SetGoal(goal) ==
  \E ub \in UB(goal) :
    LET r == setGoal(instances_, goal_, goal, ub)
    IN /\ goal_' = r.goal
       /\ UNCHANGED <<instances_, predicates_, functions_, conditionals_>>
       /\ Call("setGoal", Arg("", "", goal), r.ret)

ClearGoal ==
  /\ goal_' = <<>>
  /\ UNCHANGED <<instances_, predicates_, functions_, conditionals_>>
  /\ Call("clearGoal", Arg("", "", <<>>), TRUE)

\* clearKnowledge without conditionals_.clear()
ClearKnowledge_KeepsConditionals ==
  /\ instances_' = <<>>
  /\ predicates_' = <<>>
  /\ functions_' = <<>>
  /\ goal_' = <<>>
  /\ UNCHANGED conditionals_
  /\ Call("clearKnowledge", Arg("", "", <<>>), TRUE)

ClearKnowledge ==
  /\ instances_' = <<>>
  /\ predicates_' = <<>>
  /\ functions_' = <<>>
  /\ conditionals_' = <<>>
  /\ goal_' = <<>>
  /\ Call("clearKnowledge", Arg("", "", <<>>), TRUE)

AddProblem(problem) ==
  \E ub \in UB(problem.goal) :
    LET r == addProblem(Store, problem, ub)
    IN /\ instances_' = r.store.instances
       /\ predicates_' = r.store.predicates
       /\ functions_' = r.store.functions
       /\ conditionals_' = r.store.conditionals
       /\ goal_' = r.store.goal
       /\ Call("addProblem", Arg(problem.status, "", problem.goal), r.ret)

(***************************************************************************)
(* The whole interface over a compact set of calls.                        *)
(***************************************************************************)
ApiInstances == {Instance("r1", "robot"), Instance("l1", "room"), Instance("l1", "ghost")}

ApiNames == {"r1", "l1"}

ApiPredicates == {PredB, Predicate("foo", <<"r1">>)}

ApiFunctions == {Function("battery", <<"r1">>, v) : v \in 0..MaxValue}

ApiConditionals ==
  {TreeOf("UNKNOWN", <<PredA>>), TreeOf("ONE_OF", <<PredA, PredB>>),
   TreeOf("ONE_OF", <<PredA>>)}

ApiGoals == {TreeOf("AND", <<PredA, PredB>>)}

ApiProblems == {problem \in ProblemInputs : problem.status \in {"parse_error", "parsed"}}

Next ==
  \/ \E instance \in ApiInstances : AddInstance(instance)
  \/ \E name \in ApiNames : RemoveInstance(name)
  \/ \E predicate \in ApiPredicates : AddPredicate(predicate)
  \/ \E predicate \in ApiPredicates : RemovePredicate(predicate)
  \/ \E function \in ApiFunctions : AddFunction(function)
  \/ \E function \in ApiFunctions : UpdateFunction(function)
  \/ \E function \in ApiFunctions : RemoveFunction(function)
  \/ \E condition \in ApiConditionals : AddConditional(condition)
  \/ \E condition \in ApiConditionals : RemoveConditional(condition)
  \/ \E goal \in ApiGoals : SetGoal(goal)
  \/ ClearGoal
  \/ ClearKnowledge
  \/ \E problem \in ApiProblems : AddProblem(problem)

Spec == Init /\ [][Next]_vars

(***************************************************************************)
(* Objects, predicates and functions over every kind of valid and invalid  *)
(* argument.                                                               *)
(***************************************************************************)
NextFacts ==
  \/ \E instance \in InstanceInputs : AddInstance(instance)
  \/ \E name \in NameInputs : RemoveInstance(name)
  \/ \E predicate \in PredicateInputs : AddPredicate(predicate)
  \/ \E predicate \in PredicateInputs : RemovePredicate(predicate)
  \/ \E function \in FunctionInputs : AddFunction(function)
  \/ \E function \in FunctionInputs : UpdateFunction(function)
  \/ \E function \in FunctionInputs : RemoveFunction(function)
  \/ ClearKnowledge

SpecFacts == Init /\ [][NextFacts]_vars

(***************************************************************************)
(* Objects, predicates and conditionals.                                   *)
(***************************************************************************)
ContingentInstances == {Instance("r1", "robot"), Instance("l1", "room")}

\* a problem text whose :init holds only (unknown ...) and (oneof ...) entries
ContingentProblems ==
  {Problem("parse_error", <<>>, <<>>, <<>>, <<>>),
   Problem("parsed", <<Instance("r1", "robot"), Instance("l1", "room")>>, <<>>,
           <<TreeOf("UNKNOWN", <<PredA>>), TreeOf("UNKNOWN", <<PredB>>),
             TreeOf("ONE_OF", <<PredA, PredB>>)>>,
           <<Predicate("foo", <<"r1">>)>>)}

NextContingent ==
  \/ \E instance \in ContingentInstances : AddInstance(instance)
  \/ \E name \in ApiNames : RemoveInstance(name)
  \/ \E predicate \in {PredB} : AddPredicate(predicate)
  \/ \E condition \in ConditionalInputs : AddConditional(condition)
  \/ \E condition \in ConditionalInputs : RemoveConditional(condition)
  \/ ClearKnowledge
  \/ \E problem \in ContingentProblems : AddProblem(problem)

SpecContingent == Init /\ [][NextContingent]_vars

(***************************************************************************)
(* Objects and the goal.                                                   *)
(***************************************************************************)
NextGoal ==
  \/ \E instance \in InstanceInputs : AddInstance(instance)
  \/ \E name \in NameInputs : RemoveInstance(name)
  \/ \E goal \in GoalInputs : SetGoal(goal)
  \/ ClearGoal
  \/ ClearKnowledge

SpecGoal == Init /\ [][NextGoal]_vars

(***************************************************************************)
(* Objects, conditionals and the goal over trees of every root kind, and   *)
(* over a one-disjunct ONE_OF whose disjunct is not the node at index 1.   *)
(***************************************************************************)
MaxConditionals == 2

UnknownA == TreeOf("UNKNOWN", <<PredA>>)
UnknownB == TreeOf("UNKNOWN", <<PredB>>)
OneOfAB == TreeOf("ONE_OF", <<PredA, PredB>>)

\* ONE_OF whose only child index is 2: the node at index 1 is in the arena
\* but is not a disjunct
OneOfSecond ==
  <<Node("ONE_OF", 0, <<2>>, "", <<>>, 0), Leaf(PredA, 1), Leaf(PredB, 2)>>

ShapeInputs ==
  {UnknownA, OneOfAB, OneOfSecond, TreeOf("ONE_OF", <<PredB>>),
   TreeOf("AND", <<PredA, PredB>>), TreeOf("NOT", <<PredB>>), <<PredA>>}

ShapeGoals == {<<PredA>>, TreeOf("AND", <<PredA, PredB>>)}

NextShapes ==
  \/ \E instance \in ContingentInstances : AddInstance(instance)
  \/ \E name \in ApiNames : RemoveInstance(name)
  \/ \E condition \in ShapeInputs :
       Len(conditionals_) < MaxConditionals /\ AddConditional(condition)
  \/ \E condition \in ShapeInputs : RemoveConditional(condition)
  \/ \E goal \in ShapeGoals : SetGoal(goal)
  \/ ClearKnowledge

SpecShapes == Init /\ [][NextShapes]_vars

(***************************************************************************)
(* Problem texts, readable and not, on stores of every content.            *)
(***************************************************************************)
\* a readable text with an object of an undeclared type, an object whose
\* name is taken, facts on objects of the wrong type and an undeclared goal
MixedProblem ==
  Problem("parsed",
          <<Instance("l1", "room"), Instance("r1", "robot"), Instance("l1", "ghost"),
            Instance("l2", "ghost")>>,
          <<Predicate("charged", <<"l1">>), PredA, Function("battery", <<"l1">>, 0),
            Function("battery", <<"r1">>, 1), Predicate("at", <<"r1", "l2">>)>>,
          <<TreeOf("UNKNOWN", <<Predicate("charged", <<"l1">>)>>),
            TreeOf("ONE_OF", <<PredB>>), TreeOf("UNKNOWN", <<PredA>>)>>,
          <<Predicate("foo", <<"r1">>)>>)

LoadInputs == ProblemInputs \cup {MixedProblem}

NextLoad ==
  \/ \E instance \in ApiInstances : AddInstance(instance)
  \/ \E name \in ApiNames : RemoveInstance(name)
  \/ \E predicate \in {PredB} : AddPredicate(predicate)
  \/ \E problem \in LoadInputs : AddProblem(problem)
  \/ ClearKnowledge

SpecLoad == Init /\ [][NextLoad]_vars

(***************************************************************************)
(* Goals whose child indices leave the arena.                              *)
(***************************************************************************)
\* a conjunction over one predicate whose only child index is `child`
Indexed(child) == <<Node("AND", 0, <<child>>, "", <<>>, 0), Leaf(PredB, 1)>>

\* child index 1 is the predicate, 2 is one past the arena, 257 is beyond
\* what the 8-bit recursion parameter holds
IndexInputs == {Indexed(1), Indexed(2), Indexed(257), <<PredB>>, <<PredA>>}

NextIndex ==
  \/ \E instance \in ContingentInstances : AddInstance(instance)
  \/ \E goal \in IndexInputs : SetGoal(goal)
  \/ ClearGoal
  \/ ClearKnowledge

SpecIndex == Init /\ [][NextIndex]_vars

(***************************************************************************)
(* Objects and goals of every root kind.                                   *)
(***************************************************************************)
GoalTreeInputs ==
  {<<PredA>>, TreeOf("AND", <<PredA, PredB>>), TreeOf("NOT", <<PredB>>),
   UnknownA, OneOfAB, <<Predicate("foo", <<"r1">>)>>}

NextGoalTrees ==
  \/ \E instance \in ContingentInstances : AddInstance(instance)
  \/ \E name \in ApiNames : RemoveInstance(name)
  \/ \E goal \in GoalTreeInputs : SetGoal(goal)
  \/ ClearGoal
  \/ ClearKnowledge

SpecGoalTrees == Init /\ [][NextGoalTrees]_vars

(***************************************************************************)
(* Goals and conditionals rooted at NOT nodes of zero, one and two         *)
(* children.                                                               *)
(***************************************************************************)
NotInputs ==
  {TreeOf("NOT", <<>>), TreeOf("NOT", <<PredB>>), TreeOf("NOT", <<PredB, PredA>>),
   TreeOf("NOT", <<Predicate("foo", <<"r1">>), PredB>>)}

NextNot ==
  \/ \E instance \in ContingentInstances : AddInstance(instance)
  \/ \E name \in ApiNames : RemoveInstance(name)
  \/ \E goal \in NotInputs : SetGoal(goal)
  \/ ClearGoal
  \/ \E condition \in NotInputs : AddConditional(condition)
  \/ \E condition \in NotInputs : RemoveConditional(condition)
  \/ ClearKnowledge

SpecNot == Init /\ [][NextNot]_vars

(***************************************************************************)
(* Removal and the ONE_OF cascade over groups of two and three disjuncts   *)
(* in both orders, with predicates and functions beside them.              *)
(***************************************************************************)
PredC == Predicate("docked", <<"r1">>)

OneOfABC == TreeOf("ONE_OF", <<PredA, PredB, PredC>>)
OneOfBC == TreeOf("ONE_OF", <<PredB, PredC>>)
OneOfCB == TreeOf("ONE_OF", <<PredC, PredB>>)

CascadeInputs == {UnknownA, OneOfABC, OneOfBC, OneOfCB}

CascadePredicates == {PredB, Predicate("charged", <<"l1">>)}

CascadeFunctions == {Function("battery", <<"r1">>, 0), Function("battery", <<"l1">>, 0)}

NextCascade ==
  \/ \E instance \in ContingentInstances : AddInstance(instance)
  \/ \E predicate \in CascadePredicates : AddPredicate(predicate)
  \/ \E predicate \in CascadePredicates : RemovePredicate(predicate)
  \/ \E function \in CascadeFunctions : AddFunction(function)
  \/ \E function \in CascadeFunctions : RemoveFunction(function)
  \/ \E condition \in CascadeInputs : AddConditional(condition)
  \/ \E condition \in CascadeInputs : RemoveConditional(condition)
  \/ ClearKnowledge

SpecCascade == Init /\ [][NextCascade]_vars

(***************************************************************************)
(* ExecutorNodeContingent: one goal from handle_goal to the delivered      *)
(* result.  The behaviour tree is the environment: a tick answers RUNNING, *)
(* SUCCESS or FAILURE, or raises an exception.                             *)
(***************************************************************************)
\* the exploration stops after MaxTicks calls of tickRoot()
MaxTicks == 3

\* handle_goal: the plan is emptied and the goal accepted; execute starts later
handle_goal ==
  /\ pc = "idle"
  /\ current_plan_' = "none"
  /\ pc' = "accepted"
  /\ UNCHANGED <<cancel_plan_requested_, status, halted, result, ticks, thrown,
                 cancel_asked, ticks_after_cancel>>
  /\ UNCHANGED knowledge

\* the callback that raises cancel_plan_requested_ for the accepted goal,
\* at any moment until the result is delivered
handle_cancel ==
  /\ pc \in {"accepted", "built", "loop", "tick", "after"}
  /\ cancel_plan_requested_' = TRUE
  /\ cancel_asked' = TRUE
  /\ UNCHANGED <<pc, current_plan_, status, halted, result, ticks, thrown,
                 ticks_after_cancel>>
  /\ UNCHANGED knowledge

\* execute, lines 98-103: the flag is lowered and the plan taken from the goal
execute_begin ==
  /\ pc = "accepted"
  /\ cancel_plan_requested_' = FALSE
  /\ current_plan_' = "plan"
  /\ pc' = "built"
  /\ UNCHANGED <<status, halted, result, ticks, thrown, cancel_asked, ticks_after_cancel>>
  /\ UNCHANGED knowledge

\* execute, lines 105-215: no plan ends the call with success = false, else
\* the tree is built and status starts as RUNNING
execute_build ==
  /\ pc = "built"
  /\ IF current_plan_ = "none"
     THEN /\ result' = [delivered |-> TRUE, success |-> FALSE]
          /\ pc' = "done"
          /\ UNCHANGED status
     ELSE /\ status' = "RUNNING"
          /\ pc' = "loop"
          /\ UNCHANGED result
  /\ UNCHANGED <<current_plan_, cancel_plan_requested_, halted, ticks, thrown,
                 cancel_asked, ticks_after_cancel>>
  /\ UNCHANGED knowledge

\* the condition of the while loop, line 217
execute_test ==
  /\ pc = "loop"
  /\ pc' = IF status = "RUNNING" /\ ~cancel_plan_requested_ THEN "tick" ELSE "after"
  /\ UNCHANGED <<current_plan_, cancel_plan_requested_, status, halted, result, ticks,
                 thrown, cancel_asked, ticks_after_cancel>>
  /\ UNCHANGED knowledge

\* the body of the loop, lines 218-232: tickRoot() answers `outcome`; in the
\* handler of an exception `status == BT::NodeStatus::FAILURE;` compares and
\* assigns nothing
execute_tick(outcome) ==
  /\ pc = "tick"
  /\ ticks < MaxTicks
  /\ ticks' = ticks + 1
  /\ ticks_after_cancel' = IF cancel_asked THEN ticks_after_cancel + 1 ELSE ticks_after_cancel
  /\ IF outcome = "exception"
     THEN thrown' = TRUE /\ UNCHANGED status
     ELSE status' = outcome /\ UNCHANGED thrown
  /\ pc' = "loop"
  /\ UNCHANGED <<current_plan_, cancel_plan_requested_, halted, result, cancel_asked>>
  /\ UNCHANGED knowledge

\* execute, lines 235-254: halt on cancel or FAILURE, success iff SUCCESS,
\* the result delivered when rclcpp::ok()
execute_finish(ok) ==
  /\ pc = "after"
  /\ halted' = (cancel_plan_requested_ \/ status = "FAILURE")
  /\ result' = [delivered |-> ok, success |-> (status = "SUCCESS")]
  /\ pc' = "done"
  /\ UNCHANGED <<current_plan_, cancel_plan_requested_, status, ticks, thrown,
                 cancel_asked, ticks_after_cancel>>
  /\ UNCHANGED knowledge

TickOutcomes == {"RUNNING", "SUCCESS", "FAILURE", "exception"}

NextExecutor ==
  \/ handle_goal
  \/ handle_cancel
  \/ execute_begin
  \/ execute_build
  \/ execute_test
  \/ \E outcome \in TickOutcomes : execute_tick(outcome)
  \/ \E ok \in BOOLEAN : execute_finish(ok)

SpecExecutor == Init /\ [][NextExecutor]_vars

(***************************************************************************)
(* Properties.                                                             *)
(***************************************************************************)

\* type validity as the data model states it: the name is declared with
\* that arity and every parameter names a stored object whose type is the
\* declared one or one of its accepted subtypes
TypeValid(instances, signature, node) ==
  /\ signature # <<>>
  /\ Len(signature[1].parameters) = Len(node.parameters)
  /\ \A i \in 1..Len(node.parameters) :
       \E o \in Range(instances) :
         /\ o.name = node.parameters[i]
         /\ o.type \in {signature[1].parameters[i].type}
                         \cup signature[1].parameters[i].sub_types

\* the stored facts equal to `node` by name and parameters
Stored(nodes, node) ==
  {i \in 1..Len(nodes) : nodes[i].name = node.name /\ nodes[i].parameters = node.parameters}

\* C1: from a store whose only conditional is ONE_OF{A, B} (A, B type-valid
\* and distinct), removeConditional(UNKNOWN{A}) leaves B stored as a certain
\* predicate and leaves no conditional.
C1_OneOfCollapse ==
  (/\ op = "removeConditional"
   /\ arg.tree = UnknownA
   /\ pre.conditionals = <<OneOfAB>>
   /\ TypeValid(pre.instances, domainPredicate("at"), PredA)
   /\ TypeValid(pre.instances, domainPredicate("charged"), PredB))
  => /\ Stored(predicates_, PredB) # {}
     /\ conditionals_ = <<>>

\* C2: from a store holding ONE_OF{A, B} and neither A nor B as a predicate,
\* after removeConditional(UNKNOWN{A}) and removeConditional(UNKNOWN{B}), in
\* either order, no ONE_OF group is stored and neither A nor B is a
\* predicate.
C2_FullExhaustion ==
  [][(/\ op = "removeConditional"
      /\ op' = "removeConditional"
      /\ {arg.tree, arg'.tree} = {UnknownA, UnknownB}
      /\ ret /\ ret'
      /\ OneOfAB \in Range(pre.conditionals)
      /\ Stored(pre.predicates, PredA) = {}
      /\ Stored(pre.predicates, PredB) = {})
     => /\ \A c \in Range(conditionals_') : At(c, 0).node_type # "ONE_OF"
        /\ Stored(predicates_', PredA) = {}
        /\ Stored(predicates_', PredB) = {}]_vars

\* C3: every stored conditional rooted at ONE_OF has at least two disjuncts.
C3_OneOfAtLeastTwo ==
  \A i \in 1..Len(conditionals_) :
    At(conditionals_[i], 0).node_type = "ONE_OF"
      => Len(At(conditionals_[i], 0).children) >= 2

Names(nodes_or_instances) == {x.name : x \in Range(nodes_or_instances)}

Refers(node, name) == name \in Range(node.parameters)

\* C4: after removeInstance(n) no stored predicate or function has a
\* parameter bound to n, the predicates and functions that do not name n are
\* exactly those stored before, and the call returns whether an object named
\* n was stored.
C4_RemoveObjectCascade ==
  op = "removeInstance" =>
    /\ \A i \in 1..Len(predicates_) : ~Refers(predicates_[i], arg.name)
    /\ \A i \in 1..Len(functions_) : ~Refers(functions_[i], arg.name)
    /\ predicates_ = SelectSeq(pre.predicates, LAMBDA p : ~Refers(p, arg.name))
    /\ functions_ = SelectSeq(pre.functions, LAMBDA f : ~Refers(f, arg.name))
    /\ ret = (arg.name \in Names(pre.instances))

\* removeInstance("l1") found the object, dropped one of two predicates and
\* one of two functions and kept the other of each
C4_Witness ==
  /\ op = "removeInstance" /\ ret /\ arg.name = "l1"
  /\ Len(pre.predicates) = 2 /\ Len(predicates_) = 1
  /\ Len(pre.functions) = 2 /\ Len(functions_) = 1

\* the predicate and function leaves of a goal, by name and parameters
Leaves(goal) ==
  {<<goal[i].name, goal[i].parameters>> :
     i \in {j \in 1..Len(goal) : goal[j].node_type \in {"PREDICATE", "FUNCTION"}}}

\* C5: after removeInstance(n) the goal has no predicate or function leaf
\* naming n, whatever its shape (single leaf, AND root, OR root): the
\* subgoals naming n are dropped, the others are kept under the same top
\* connective, and the goal is empty if none is left.
C5_GoalCascade ==
  op = "removeInstance" =>
    /\ \A i \in 1..Len(goal_) : ~Refers(goal_[i], arg.name)
    /\ Leaves(goal_) = {l \in Leaves(pre.goal) : arg.name \notin Range(l[2])}
    /\ goal_ # <<>> => At(goal_, 0).node_type = At(pre.goal, 0).node_type

\* C6: addPredicate / addFunction of a fact that is not stored returns true
\* and stores it iff its name is declared, its arity is the declared one and
\* every parameter names a stored object of the declared type or of one of
\* its accepted subtypes; otherwise it returns false and stores nothing.
C6_AddFactValidation ==
  /\ (op = "addPredicate" /\ Stored(pre.predicates, arg.tree[1]) = {}) =>
       LET valid == TypeValid(pre.instances, domainPredicate(arg.tree[1].name), arg.tree[1])
       IN /\ ret = valid
          /\ predicates_ = IF valid THEN Append(pre.predicates, arg.tree[1])
                                    ELSE pre.predicates
          /\ functions_ = pre.functions
  /\ (op = "addFunction" /\ Stored(pre.functions, arg.tree[1]) = {}) =>
       LET valid == TypeValid(pre.instances, domainFunction(arg.tree[1].name), arg.tree[1])
       IN /\ ret = valid
          /\ functions_ = IF valid THEN Append(pre.functions, arg.tree[1])
                                   ELSE pre.functions
          /\ predicates_ = pre.predicates

\* addPredicate was refused for a stored object whose type is neither the
\* declared one nor an accepted subtype, while another predicate is stored
C6_Witness ==
  /\ op = "addPredicate" /\ ~ret
  /\ arg.tree[1] = Predicate("charged", <<"l1">>)
  /\ "l1" \in Names(pre.instances)
  /\ Len(predicates_) = 1

\* the call addInstance(n, t) repeated on the store the first call left
SecondAddInstance == addInstance(instances_, Instance(arg.name, arg.type))

\* C7 as stated: for every declared type and every store, addInstance(n, t)
\* followed by addInstance(n, t) returns true both times and the second call
\* changes nothing.
C7_AddObjectIdempotentAnyStore ==
  (op = "addInstance" /\ arg.type \in getTypes)
  => /\ ret
     /\ SecondAddInstance.ret
     /\ SecondAddInstance.instances = instances_

\* C7 (amended): for every declared type t and every store in which no
\* object named n has another type, addInstance(n, t) followed by
\* addInstance(n, t) returns true both times and the second call changes
\* nothing.
C7_AddObjectIdempotent ==
  (/\ op = "addInstance" /\ arg.type \in getTypes
   /\ \A o \in Range(pre.instances) : o.name = arg.name => o.type = arg.type)
  => /\ ret
     /\ SecondAddInstance.ret
     /\ SecondAddInstance.instances = instances_

\* addInstance(n, t) stored a new object next to another one, so that the
\* repeated call meets the object it has just stored
C7_Witness ==
  /\ op = "addInstance" /\ ret
  /\ arg.name \notin Names(pre.instances)
  /\ Instance(arg.name, arg.type) \in Range(instances_)
  /\ Len(instances_) = 2

\* C8: addInstance(n, t) returns false and changes nothing when t is not a
\* declared type or when n is stored with another type, whose stored type
\* then stays.
C8_AddObjectRejects ==
  (/\ op = "addInstance"
   /\ \/ arg.type \notin getTypes
      \/ \E o \in Range(pre.instances) : o.name = arg.name /\ o.type # arg.type)
  => /\ ~ret
     /\ Store = pre
     /\ \A o \in Range(pre.instances) : o.name = arg.name => o \in Range(instances_)

\* addInstance was refused for a declared type because the name is stored
\* with another type
C8_Witness ==
  /\ op = "addInstance" /\ ~ret /\ arg.type \in getTypes
  /\ \E o \in Range(instances_) : o.name = arg.name /\ o.type # arg.type

\* C9: no two stored objects have the same name, no two stored predicates
\* the same name and parameters, no two stored functions the same name and
\* parameters.
C9_SetSemantics ==
  /\ \A i, j \in 1..Len(instances_) : instances_[i].name = instances_[j].name => i = j
  /\ \A i \in 1..Len(predicates_) : Stored(predicates_, predicates_[i]) = {i}
  /\ \A i \in 1..Len(functions_) : Stored(functions_, functions_[i]) = {i}

\* a one-disjunct ONE_OF was collapsed onto a predicate that was already
\* stored, with objects and a function in the store
C9_Witness ==
  /\ op = "addConditional" /\ ret
  /\ At(arg.tree, 0).node_type = "ONE_OF" /\ Len(At(arg.tree, 0).children) = 1
  /\ Stored(pre.predicates, At(arg.tree, 1)) # {}
  /\ Len(instances_) = 2 /\ Len(predicates_) = 2 /\ functions_ # <<>>

\* C10: addFunction(f) with (f.name, f.parameters) already stored returns
\* true, leaves exactly one function with that key, whose value is f.value,
\* and leaves the other functions as they were; addPredicate of a stored
\* predicate returns true and changes nothing.
C10_AddFunctionUpdates ==
  /\ (op = "addFunction" /\ Stored(pre.functions, arg.tree[1]) # {}) =>
       /\ ret
       /\ Cardinality(Stored(functions_, arg.tree[1])) = 1
       /\ \A i \in Stored(functions_, arg.tree[1]) : functions_[i].value = arg.tree[1].value
       /\ {functions_[i] : i \in (1..Len(functions_)) \ Stored(functions_, arg.tree[1])}
            = {pre.functions[i] :
                 i \in (1..Len(pre.functions)) \ Stored(pre.functions, arg.tree[1])}
       /\ Len(functions_) = Len(pre.functions)
  /\ (op = "addPredicate" /\ Stored(pre.predicates, arg.tree[1]) # {}) =>
       /\ ret
       /\ Store = pre

\* addFunction overwrote a stored value with a different one while another
\* function was stored
C10_Witness ==
  /\ op = "addFunction" /\ ret
  /\ \E i \in Stored(pre.functions, arg.tree[1]) :
       pre.functions[i].value # arg.tree[1].value
  /\ Len(functions_) = 2

\* type validity of the subtree at `node_id` as the type-checking rules state
\* it: every child of an AND, OR, ONE_OF, EXPRESSION or FUNCTION_MODIFIER node
\* valid, a NOT or UNKNOWN node with exactly one child, which is valid, a
\* leaf valid against its signature
RECURSIVE TreeValid(_, _, _)
TreeValid(instances, tree, node_id) ==
  /\ node_id < Len(tree)
  /\ LET node == At(tree, node_id)
         everyChild ==
           \A k \in 1..Len(node.children) : TreeValid(instances, tree, node.children[k])
     IN CASE node.node_type \in {"AND", "OR", "ONE_OF", "EXPRESSION", "FUNCTION_MODIFIER"} ->
               everyChild
          [] node.node_type \in {"NOT", "UNKNOWN"} ->
               Len(node.children) = 1 /\ everyChild
          [] node.node_type = "PREDICATE" ->
               TypeValid(instances, domainPredicate(node.name), node)
          [] node.node_type = "FUNCTION" ->
               TypeValid(instances, domainFunction(node.name), node)
          [] node.node_type = "NUMBER" -> TRUE
          [] OTHER -> FALSE

\* the stored trees structurally equal to `tree`
StoredTrees(conditionals, tree) ==
  {i \in 1..Len(conditionals) : checkTreeEquality(conditionals[i], tree)}

\* C11: removePredicate, removeFunction and removeConditional return false
\* and change nothing when the argument is not type-valid; when it is they
\* return true, whether or not an equal entry was stored, and no entry
\* structurally equal to the argument is left in the collection.
C11_RemovalSemantics ==
  /\ op = "removePredicate" =>
       LET valid == TypeValid(pre.instances, domainPredicate(arg.tree[1].name), arg.tree[1])
       IN /\ ret = valid
          /\ ~valid => Store = pre
          /\ valid => Stored(predicates_, arg.tree[1]) = {}
  /\ op = "removeFunction" =>
       LET valid == TypeValid(pre.instances, domainFunction(arg.tree[1].name), arg.tree[1])
       IN /\ ret = valid
          /\ ~valid => Store = pre
          /\ valid => Stored(functions_, arg.tree[1]) = {}
  /\ op = "removeConditional" =>
       LET valid == TreeValid(pre.instances, arg.tree, 0)
       IN /\ ret = valid
          /\ ~valid => Store = pre
          /\ valid => StoredTrees(conditionals_, arg.tree) = {}

\* C19: no two stored conditionals are structurally equal, and addConditional
\* of a tree structurally equal to a stored one returns true and changes
\* nothing, also when the stored one came out of the filter-and-re-add of
\* removeConditional.
C19_NoEqualConditionals ==
  /\ \A i \in 1..Len(conditionals_) : StoredTrees(conditionals_, conditionals_[i]) = {i}
  /\ (op = "addConditional" /\ StoredTrees(pre.conditionals, arg.tree) # {})
       => ret /\ Store = pre

\* the disjuncts of a ONE_OF group in the order of its children
Disjuncts(tree) ==
  [k \in 1..Len(At(tree, 0).children) |->
     <<At(tree, At(tree, 0).children[k]).name, At(tree, At(tree, 0).children[k]).parameters>>]

\* two ONE_OF groups with the same disjuncts in different orders
Reordered(first, second) ==
  /\ At(first, 0).node_type = "ONE_OF" /\ At(second, 0).node_type = "ONE_OF"
  /\ Len(Disjuncts(first)) = Len(Disjuncts(second))
  /\ Range(Disjuncts(first)) = Range(Disjuncts(second))
  /\ Disjuncts(first) # Disjuncts(second)

\* C20: a type-valid ONE_OF group added while a group with the same
\* disjuncts in another order is stored is stored as well, and removing a
\* group leaves the stored groups with its disjuncts in another order.
C20_OrderSensitive ==
  /\ (/\ op = "addConditional"
      /\ TreeValid(pre.instances, arg.tree, 0)
      /\ arg.tree \notin Range(pre.conditionals)
      /\ \E c \in Range(pre.conditionals) : Reordered(c, arg.tree))
     => /\ ret
        /\ conditionals_ = Append(pre.conditionals, arg.tree)
  /\ op = "removeConditional" =>
       \A c \in Range(pre.conditionals) : Reordered(c, arg.tree) => c \in Range(conditionals_)

\* the group (charged, docked) was removed while the group (docked, charged),
\* added beside it, stays stored
C20_Witness ==
  /\ op = "removeConditional" /\ ret /\ arg.tree = OneOfBC
  /\ OneOfBC \in Range(pre.conditionals) /\ OneOfCB \in Range(pre.conditionals)
  /\ OneOfBC \notin Range(conditionals_) /\ OneOfCB \in Range(conditionals_)

RootKind(tree) == At(tree, 0).node_type

C13_CollapseStoresTheDisjunct ==
  (/\ op = "addConditional"
   /\ TreeValid(pre.instances, arg.tree, 0)
   /\ arg.tree \notin Range(pre.conditionals))
  => /\ ret
     /\ IF RootKind(arg.tree) = "ONE_OF" /\ Len(At(arg.tree, 0).children) = 1
        THEN LET disjunct == At(arg.tree, At(arg.tree, 0).children[1])
             IN /\ conditionals_ = pre.conditionals
                /\ Stored(predicates_, disjunct) # {}
                /\ \A i \in 1..Len(predicates_) :
                     \/ Stored(pre.predicates, predicates_[i]) # {}
                     \/ i \in Stored(predicates_, disjunct)
        ELSE /\ conditionals_ = Append(pre.conditionals, arg.tree)
             /\ predicates_ = pre.predicates

\* C14: setGoal returns true and makes the tree the goal iff the tree is
\* type-valid and its root is neither UNKNOWN nor ONE_OF; otherwise it
\* returns false and the goal stays what it was.
C14_SetGoal ==
  op = "setGoal" =>
    LET accepted == /\ TreeValid(pre.instances, arg.tree, 0)
                    /\ RootKind(arg.tree) \notin {"UNKNOWN", "ONE_OF"}
    IN /\ ret = accepted
       /\ goal_ = IF accepted THEN arg.tree ELSE pre.goal
       /\ Store = [pre EXCEPT !.goal = goal_]

\* C15: after removeConditional(UNKNOWN{X}) returned true, no stored ONE_OF
\* group has a disjunct equal to X: each group that held X is replaced by
\* the group of its other disjuncts in their order with the child indices
\* 1, 2, ..., by the predicate if one disjunct is left, by nothing if none.
C15_CascadeFiltersEveryGroup ==
  (op = "removeConditional" /\ ret /\ RootKind(arg.tree) = "UNKNOWN")
  => LET X == <<At(arg.tree, 1).name, At(arg.tree, 1).parameters>>
     IN /\ \A c \in Range(conditionals_) :
             RootKind(c) = "ONE_OF" => X \notin Range(Disjuncts(c))
        /\ \A g \in Range(pre.conditionals) :
             (RootKind(g) = "ONE_OF" /\ X \in Range(Disjuncts(g))) =>
               LET kept == SelectSeq(Disjuncts(g), LAMBDA d : d # X)
               IN CASE Len(kept) = 0 -> TRUE
                    [] Len(kept) = 1 ->
                         \E i \in 1..Len(predicates_) :
                           <<predicates_[i].name, predicates_[i].parameters>> = kept[1]
                    [] OTHER ->
                         \E c \in Range(conditionals_) :
                           /\ RootKind(c) = "ONE_OF"
                           /\ Disjuncts(c) = kept
                           /\ At(c, 0).children = [k \in 1..Len(kept) |-> k]

\* C16: a tree rooted at a NOT node with no child or with two or more
\* children is rejected by setGoal and addConditional whatever its first
\* child is; with one child setGoal accepts it iff the child is valid.
C16_NotHasOneChild ==
  (op \in {"setGoal", "addConditional"} /\ RootKind(arg.tree) = "NOT")
  => /\ Len(At(arg.tree, 0).children) # 1 => (~ret /\ Store = pre)
     /\ (Len(At(arg.tree, 0).children) = 1 /\ op = "setGoal")
          => ret = TreeValid(pre.instances, arg.tree, At(arg.tree, 0).children[1])

\* the nodes of the tree reachable from `node_id` through children
RECURSIVE Reach(_, _)
Reach(tree, node_id) ==
  IF node_id >= Len(tree)
  THEN {}
  ELSE {node_id} \cup UNION {Reach(tree, c) : c \in Range(At(tree, node_id).children)}

\* some predicate or function leaf of the tree names an object that is not stored
Dangling(instances, tree) ==
  \E id \in Reach(tree, 0) :
    /\ At(tree, id).node_type \in {"PREDICATE", "FUNCTION"}
    /\ \E k \in 1..Len(At(tree, id).parameters) :
         At(tree, id).parameters[k] \notin Names(instances)

\* C17: addConditional, removeConditional and setGoal of a tree with a leaf
\* naming an object that is not stored return false and change nothing,
\* also when the same tree was stored while the object existed.
C17_ReferentialViolation ==
  (/\ op \in {"addConditional", "removeConditional", "setGoal"}
   /\ Dangling(pre.instances, arg.tree))
  => ~ret /\ Store = pre

\* C18: after removeInstance(n) no stored conditional has a node whose
\* parameters name n.
C18_ConditionalCascade ==
  op = "removeInstance" =>
    \A c \in Range(conditionals_) : \A i \in 1..Len(c) : ~Refers(c[i], arg.name)

\* C26: once a tick of the tree has raised an exception the loop is left:
\* the tree is not ticked again, it is halted, and the result has
\* success = false.
C26_ExceptionEndsLoop ==
  thrown => /\ pc # "tick"
            /\ pc = "done" => (halted /\ ~result.success)

\* C27: a cancel request raised at any moment after the goal was accepted is
\* honoured: at most one more tick begins after it, the tree is halted and
\* the result has success = false, also when the request comes before
\* execute reaches its loop.
C27_CancelHonoured ==
  cancel_asked => /\ ticks_after_cancel <= 1
                  /\ pc = "done" => (halted /\ ~result.success)

\* C21: clearKnowledge returns true and leaves objects, predicates,
\* functions, conditionals and goal empty in one step; clearGoal returns
\* true, empties the goal and leaves the four collections as they were.
C21_Clear ==
  /\ op = "clearKnowledge" =>
       /\ ret
       /\ instances_ = <<>> /\ predicates_ = <<>> /\ functions_ = <<>>
       /\ conditionals_ = <<>> /\ goal_ = <<>>
  /\ op = "clearGoal" =>
       /\ ret
       /\ goal_ = <<>>
       /\ Store = [pre EXCEPT !.goal = <<>>]

\* clearKnowledge was called on a store with objects, predicates,
\* functions, conditionals and a goal
C21_Witness ==
  /\ op = "clearKnowledge"
  /\ pre.instances # <<>> /\ pre.predicates # <<>> /\ pre.functions # <<>>
  /\ pre.conditionals # <<>> /\ pre.goal # <<>>
  /\ conditionals_ = <<>>

\* C24: in every reachable state every stored predicate and every stored
\* function is type-valid against the stored objects: declared name and
\* arity, every parameter a stored object of an accepted type.
C24_FactsStayValid ==
  /\ \A i \in 1..Len(predicates_) :
       TypeValid(instances_, domainPredicate(predicates_[i].name), predicates_[i])
  /\ \A i \in 1..Len(functions_) :
       TypeValid(instances_, domainFunction(functions_[i].name), functions_[i])

\* removeInstance("l1") took away the one predicate that named l1 and left
\* a predicate and a function on r1
C24_Witness ==
  /\ op = "removeInstance" /\ ret /\ arg.name = "l1"
  /\ Len(pre.predicates) = 2 /\ Len(predicates_) = 1
  /\ functions_ # <<>>

\* C23: when setGoal type-checks a tree whose root is an AND, OR,
\* EXPRESSION, FUNCTION_MODIFIER or ONE_OF node with k children, the check
\* is made on each of the k children, also after an earlier child was
\* found invalid.
C23_AllChildrenChecked ==
  (/\ op = "setGoal"
   /\ RootKind(arg.tree) \in {"AND", "OR", "ONE_OF", "EXPRESSION", "FUNCTION_MODIFIER"}) =>
    \A k \in 1..Len(At(arg.tree, 0).children) :
      At(arg.tree, 0).children[k] \in checkedNodes(pre.instances, arg.tree, 0, FALSE)

\* some node reachable from the root has a child index outside the arena
OutOfArena(tree) ==
  \E id \in Reach(tree, 0) :
    \E k \in 1..Len(At(tree, id).children) : At(tree, id).children[k] >= Len(tree)

\* C28: setGoal of a tree in which a node reachable from the root has a
\* child index outside the arena returns false and leaves the goal as it
\* was, whatever the value of the index.
C28_IndexOutsideArena ==
  (op = "setGoal" /\ OutOfArena(arg.tree)) => (~ret /\ goal_ = pre.goal)

\* the conditionals removeConditional(UNKNOWN{X}) has to leave alone: the
\* UNKNOWN conditionals other than the removed one and the ONE_OF groups
\* with no disjunct equal to X
Bystanders(conditionals, condition) ==
  {c \in Range(conditionals) :
     \/ RootKind(c) = "UNKNOWN" /\ ~checkTreeEquality(c, condition)
     \/ /\ RootKind(c) = "ONE_OF"
        /\ \A k \in 1..Len(At(c, 0).children) :
             ~checkNodeEquality(At(c, At(c, 0).children[k]), At(condition, 1))}

\* C25: a successful removeConditional leaves objects, functions and goal
\* unchanged; of an UNKNOWN{X} it leaves every other UNKNOWN conditional and
\* every ONE_OF group without a disjunct equal to X stored, node for node;
\* of any other conditional it erases that one entry and nothing else.
C25_RemovalFrame ==
  (op = "removeConditional" /\ ret) =>
    /\ instances_ = pre.instances
    /\ functions_ = pre.functions
    /\ goal_ = pre.goal
    /\ IF RootKind(arg.tree) = "UNKNOWN"
       THEN Bystanders(pre.conditionals, arg.tree) \subseteq Range(conditionals_)
       ELSE /\ predicates_ = pre.predicates
            /\ \/ conditionals_ = pre.conditionals
               \/ \E i \in 1..Len(pre.conditionals) :
                    /\ checkTreeEquality(pre.conditionals[i], arg.tree)
                    /\ conditionals_ = Erase(pre.conditionals, i - 1)

\* the problem text a recorded call of addProblem was made with
Loaded == CHOOSE p \in LoadInputs : p.status = arg.name /\ p.goal = arg.tree

\* the only disjunct of a one-disjunct ONE_OF among the trees
SoleDisjuncts(trees) ==
  {[At(t, 1) EXCEPT !.node_id = 0] :
     t \in {u \in Range(trees) : RootKind(u) = "ONE_OF" /\ Len(At(u, 0).children) = 1}}

\* C22: addProblem returns false exactly when the text was not read into a
\* problem, and then the store is as before. When it returns true the
\* stored objects stay and every new object is an object of the text with
\* a declared type and a free name; every new predicate and function is a
\* fact of the text that is type-valid against the objects; every new
\* conditional is a valid tree of the text; the goal changes only to the
\* valid goal of the text; and every valid fact of the text is stored.
C22_LoadIsAtomic ==
  op = "addProblem" =>
    /\ ret = (Loaded.status = "parsed")
    /\ ~ret => Store = pre
    /\ ret =>
         /\ SubSeq(instances_, 1, Len(pre.instances)) = pre.instances
         /\ \A i \in (Len(pre.instances) + 1)..Len(instances_) :
              /\ instances_[i] \in Range(Loaded.objects)
              /\ instances_[i].type \in getTypes
              /\ instances_[i].name \notin Names(pre.instances)
         /\ \A p \in Range(predicates_) \ Range(pre.predicates) :
              /\ TypeValid(instances_, domainPredicate(p.name), p)
              /\ [p EXCEPT !.node_id = 0] \in
                   {[q EXCEPT !.node_id = 0] : q \in Range(Loaded.init)}
                     \cup SoleDisjuncts(Loaded.init_cond)
         /\ \A f \in Range(functions_) \ Range(pre.functions) :
              /\ TypeValid(instances_, domainFunction(f.name), f)
              /\ f \in Range(Loaded.init)
         /\ \A c \in Range(conditionals_) \ Range(pre.conditionals) :
              c \in Range(Loaded.init_cond) /\ TreeValid(instances_, c, 0)
         /\ goal_ # pre.goal => goal_ = Loaded.goal /\ TreeValid(instances_, goal_, 0)
         /\ \A k \in 1..Len(Loaded.init) :
              LET item == Loaded.init[k]
              IN /\ (/\ item.node_type = "PREDICATE"
                     /\ TypeValid(instances_, domainPredicate(item.name), item))
                      => Stored(predicates_, item) # {}
                 /\ (/\ item.node_type = "FUNCTION"
                     /\ TypeValid(instances_, domainFunction(item.name), item))
                      => Stored(functions_, item) # {}

\* a text that could not be parsed was offered to a store that holds
\* objects, predicates, conditionals and a goal
C22_Witness ==
  /\ op = "addProblem" /\ ~ret /\ arg.name = "parse_error"
  /\ pre.instances # <<>> /\ pre.predicates # <<>>
  /\ pre.conditionals # <<>> /\ pre.goal # <<>>
  /\ goal_ = pre.goal

====
